---- MODULE Spec2Model ----
(***************************************************************************)
(* GPU compute stages of fast-poly (fast-poly/src/stage.rs) and the proof  *)
(* options of ministark (src/lib.rs).                                      *)
(*                                                                         *)
(* A stage wraps one compiled kernel with a fixed dispatch geometry; its   *)
(* constructor validates the transform size and its encode appends one     *)
(* dispatch and one memory barrier to a command buffer.                    *)
(***************************************************************************)
EXTENDS Integers, Sequences, FiniteSets, TLC

VARIABLES
    call,    \* the last constructor call: its name, arguments and outcome
    stages,  \* the constructed stage objects the host holds
    cb,      \* the open command buffer: the commands encoded so far
    mem,     \* device memory: buffer name -> contents
    input,   \* which contents were uploaded to the device buffers
    hist     \* the encode calls of the command buffers committed so far

vars == <<call, stages, cb, mem, input, hist>>

-----------------------------------------------------------------------------
(* Machine integers.  A usize or u32 value is the set of the positions of  *)
(* its one bits, so that 2^31 and 2^32 + 2048 are values like any other.   *)

\* The machine integer of a natural number below 2^31.
U(v) == {b \in 0..30 : (v \div (2^b)) % 2 = 1}

\* The natural number of a machine integer below 2^31.
RECURSIVE ToNat(_)
ToNat(x) ==
    IF x = {} THEN 0
    ELSE LET b == CHOOSE c \in x : \A d \in x : d <= c
         IN  2^b + ToNat(x \ {b})

\* usize::is_power_of_two: exactly one bit set (false for 0).
IsPowerOfTwo(x) == Cardinality(x) = 1

\* x < y on machine integers: the highest bit they differ in is set in y.
Lt(x, y) == \E b \in y \ x : \A c \in x \ y : c < b

\* (lo..=hi).contains(&x)
RangeInclusiveContains(lo, hi, x) == ~Lt(x, lo) /\ ~Lt(hi, x)

\* `x as u32`: the low 32 bits.
AsU32(x) == x \cap (0..31)

\* x / 2
Half(x) == {b - 1 : b \in x \ {0}}

\* u32 -> NSUInteger (u64) and usize -> NSUInteger: try_into() cannot fail.
TryIntoNSUInteger(x) == x

\* metal::MTLSize::new(width, 1, 1)
MTLSize(w) == [width |-> w, height |-> U(1), depth |-> U(1)]

\* The width of a usize.
USIZE_BITS == 64

\* The bits of x + y below bit `width`.
Carry(x, y, i) ==
    \E j \in 0..(i - 1) :
        /\ j \in x
        /\ j \in y
        /\ \A k \in (j + 1)..(i - 1) : k \in x \/ k \in y
Add(x, y, width) == {i \in 0..(width - 1) : ((i \in x) # (i \in y)) # Carry(x, y, i)}

\* The bits of x - y modulo 2^width.
Borrow(x, y, i) ==
    \E j \in 0..(i - 1) :
        /\ j \notin x
        /\ j \in y
        /\ \A k \in (j + 1)..(i - 1) : ~(k \in x /\ k \notin y)
Sub(x, y, width) == {i \in 0..(width - 1) : ((i \in x) # (i \in y)) # Borrow(x, y, i)}

\* The bits of the full product x * y of two usize values.
RECURSIVE Mul(_, _)
Mul(x, y) ==
    IF y = {} THEN {}
    ELSE Add({a + (CHOOSE b \in y : TRUE) : a \in x},
             Mul(x, y \ {CHOOSE b \in y : TRUE}), 2 * USIZE_BITS)

Wrapped(x) == x \cap (0..(USIZE_BITS - 1))
Overflows(x) == x # Wrapped(x)

-----------------------------------------------------------------------------
(* The field F.  The stages are generic in the field; the model fixes the  *)
(* prime field of order 3 * 2^12 + 1, which has roots of unity of order    *)
(* 2048 and 4096.                                                          *)

P == 3 * 4096 + 1

F == 0..(P - 1)

Fadd(a, b) == (a + b) % P
Fsub(a, b) == (a + (P - b)) % P
Fmul(a, b) == (a * b) % P

\* F::pow: square and multiply.
RECURSIVE Fpow(_, _)
Fpow(x, e) ==
    IF e = 0 THEN 1
    ELSE IF e % 2 = 0 THEN (Fpow(x, e \div 2)^2) % P
    ELSE Fmul((Fpow(x, e \div 2)^2) % P, x)

Finv(x) == Fpow(x, P - 2)

\* A generator of the subgroup of order 4096 (11 generates the whole group).
TwoAdicRoot == Fpow(11, 3)

\* The generator of the subgroup of order n = 2^k, k <= 12.
RootOfUnity(n) == Fpow(TwoAdicRoot, 4096 \div n)

-----------------------------------------------------------------------------
(* Kernel library.  A library is the set of kernel functions the compiled  *)
(* module holds, and whether the device accepts to build a pipeline.       *)

FieldName == "fp"

KernelOps == {"fft_multiple", "fft_single", "mul_assign", "bit_reverse",
              "mul_pow", "add_assign"}

KernelName(op) == <<op, FieldName>>

fft_kernel_name(variant) ==
    KernelName(IF variant = "Multiple" THEN "fft_multiple" ELSE "fft_single")

FullLibrary == [functions |-> {KernelName(op) : op \in KernelOps}, device_ok |-> TRUE]

NoStage == [kind |-> "none"]

\* The outcome of a constructor: the panic that aborted it ("none" when it
\* returned), the number of get_function lookups made, and the stage.
Abort(why, lookups) == [panic |-> why, lookups |-> lookups, stage |-> NoStage]
Return(stage) == [panic |-> "none", lookups |-> 1, stage |-> stage]

\* library.get_function(name, constants).unwrap() then
\* library.device().new_compute_pipeline_state_with_function(&func).unwrap()
Pipeline(library, name, constants, stage) ==
    IF name \notin library.functions THEN Abort("get_function", 1)
    ELSE IF ~library.device_ok THEN Abort("new_compute_pipeline_state_with_function", 1)
    ELSE Return(stage)

MIN_N == U(2048)
MAX_N == U(1073741824)
THREADGROUP_WIDTH == U(1024)

-----------------------------------------------------------------------------
(* Constructors.                                                           *)

\* FftGpuStage::new without the range assertion on n.
FftGpuStage_new_no_range(library, n, num_boxes, variant) ==
    IF ~IsPowerOfTwo(n) THEN Abort("assert n.is_power_of_two", 0)
    ELSE IF ~IsPowerOfTwo(num_boxes) THEN Abort("assert num_boxes.is_power_of_two", 0)
    ELSE IF ~Lt(num_boxes, n) THEN Abort("assert num_boxes < n", 0)
    ELSE LET n32 == AsU32(n)
             num_boxes32 == AsU32(num_boxes)
             name == fft_kernel_name(variant)
             constants == <<n32, num_boxes32>>
         IN  Pipeline(library, name, constants,
                 [kind |-> "fft",
                  pipeline |-> [function |-> name, constants |-> constants],
                  threadgroup_dim |-> MTLSize(THREADGROUP_WIDTH),
                  grid_dim |-> MTLSize(TryIntoNSUInteger(Half(n32)))])

FftGpuStage_new(library, n, num_boxes, variant) ==
    IF ~IsPowerOfTwo(n) THEN Abort("assert n.is_power_of_two", 0)
    ELSE IF ~IsPowerOfTwo(num_boxes) THEN Abort("assert num_boxes.is_power_of_two", 0)
    ELSE IF ~Lt(num_boxes, n) THEN Abort("assert num_boxes < n", 0)
    ELSE IF ~RangeInclusiveContains(MIN_N, MAX_N, n) THEN Abort("assert (2048..=1073741824).contains(&n)", 0)
    ELSE LET n32 == AsU32(n)
             num_boxes32 == AsU32(num_boxes)
             name == fft_kernel_name(variant)
             constants == <<n32, num_boxes32>>
         IN  Pipeline(library, name, constants,
                 [kind |-> "fft",
                  pipeline |-> [function |-> name, constants |-> constants],
                  threadgroup_dim |-> MTLSize(THREADGROUP_WIDTH),
                  grid_dim |-> MTLSize(TryIntoNSUInteger(Half(n32)))])

\* BitReverseGpuStage::new with a grid of n / 2 threads.
BitReverseGpuStage_new_half_grid(library, n) ==
    IF ~IsPowerOfTwo(n) THEN Abort("assert n.is_power_of_two", 0)
    ELSE IF ~RangeInclusiveContains(MIN_N, MAX_N, n) THEN Abort("assert (2048..=1073741824).contains(&n)", 0)
    ELSE LET n32 == AsU32(n)
             num_boxes == U(5)
             name == KernelName("bit_reverse")
             constants == <<n32, num_boxes>>
         IN  Pipeline(library, name, constants,
                 [kind |-> "bit_reverse",
                  pipeline |-> [function |-> name, constants |-> constants],
                  threadgroup_dim |-> MTLSize(THREADGROUP_WIDTH),
                  grid_dim |-> MTLSize(TryIntoNSUInteger(Half(n32)))])

BitReverseGpuStage_new(library, n) ==
    IF ~IsPowerOfTwo(n) THEN Abort("assert n.is_power_of_two", 0)
    ELSE IF ~RangeInclusiveContains(MIN_N, MAX_N, n) THEN Abort("assert (2048..=1073741824).contains(&n)", 0)
    ELSE LET n32 == AsU32(n)
             num_boxes == U(5)
             name == KernelName("bit_reverse")
             constants == <<n32, num_boxes>>
         IN  Pipeline(library, name, constants,
                 [kind |-> "bit_reverse",
                  pipeline |-> [function |-> name, constants |-> constants],
                  threadgroup_dim |-> MTLSize(THREADGROUP_WIDTH),
                  grid_dim |-> MTLSize(TryIntoNSUInteger(n32))])

\* Radix2EvaluationDomain::distribute_powers(coeffs, g): coeffs[i] *= g^i, by a
\* running product; the slice is cut in chunks, each started at g^(chunk start).
ChunkLen == 2^6

RECURSIVE ChunkPowers(_, _, _)
ChunkPowers(pow, g, len) ==
    IF len = 0 THEN <<>> ELSE <<pow>> \o ChunkPowers(Fmul(pow, g), g, len - 1)

\* (t @@ <<>> is the function t, written out as a table of its values.)
MulByPowers(coeffs, powers) ==
    [i \in DOMAIN coeffs |-> Fmul(coeffs[i], powers[i \div ChunkLen][(i % ChunkLen) + 1])]

distribute_powers(coeffs, g) ==
    MulByPowers(coeffs,
        [c \in 0..((Cardinality(DOMAIN coeffs) - 1) \div ChunkLen) |->
            ChunkPowers(Fpow(g, c * ChunkLen), g,
                        IF Cardinality(DOMAIN coeffs) - c * ChunkLen < ChunkLen
                        THEN Cardinality(DOMAIN coeffs) - c * ChunkLen ELSE ChunkLen)]
        @@ <<>>)

\* copy_to_private_buffer(command_queue, &v): a device-private buffer holding v.
copy_to_private_buffer(v) == v

\* The scale factors without the call of distribute_powers.
ScaleFactors_no_powers(n, scale_factor, norm_factor) ==
    [i \in 0..(ToNat(n) - 1) |-> norm_factor]

\* Vec::resize(n, norm_factor) on an empty vector, then distribute_powers.
ScaleFactors(n, scale_factor, norm_factor) ==
    IF scale_factor # 1
    THEN distribute_powers([i \in 0..(ToNat(n) - 1) |-> norm_factor], scale_factor)
    ELSE [i \in 0..(ToNat(n) - 1) |-> norm_factor]

\* std::mem::size_of::<F>(): the bytes of one field value.
SizeOfF == 8

\* Vec::with_capacity_in(n, ..) panics when n values take more than
\* isize::MAX bytes.
CapacityOverflow(n) == Mul(n, U(SizeOfF)) \cap ((USIZE_BITS - 1)..(2 * USIZE_BITS)) # {}

\* The widest user address space of a 64-bit target: no allocator grants a
\* block of 2^ADDRESS_BITS bytes or more.
ADDRESS_BITS == 56

\* What the allocator may answer when Vec::with_capacity_in(n, ..) asks it for
\* n values: no bytes are asked for n = 0, a block beyond the address space
\* is never granted, and any other block is granted or not as the machine
\* has memory.
AllocatorAnswers(n) ==
    IF n = {} THEN {TRUE}
    ELSE IF Mul(n, U(SizeOfF)) \cap (ADDRESS_BITS..(2 * USIZE_BITS)) # {} THEN {FALSE}
    ELSE BOOLEAN

\* allocated is the allocator's answer: on a failed allocation
\* handle_alloc_error aborts the process and no stage is returned.
ScaleAndNormalizeGpuStage_new(library, n, scale_factor, norm_factor, allocated) ==
    LET name == KernelName("mul_assign")
    IN  IF Pipeline(library, name, <<>>, NoStage).panic # "none"
        THEN Pipeline(library, name, <<>>, NoStage)
        ELSE IF CapacityOverflow(n) THEN Abort("capacity overflow", 1)
        ELSE IF ~allocated THEN Abort("memory allocation failed", 1)
        ELSE Return(
            [kind |-> "mul_assign",
             pipeline |-> [function |-> name, constants |-> <<>>],
             threadgroup_dim |-> MTLSize(THREADGROUP_WIDTH),
             grid_dim |-> MTLSize(TryIntoNSUInteger(n)),
             scale_factors_buffer |->
                 copy_to_private_buffer(ScaleFactors(n, scale_factor, norm_factor))])

\* MulPowStage::new that keeps no shift.
MulPowStage_new_no_shift(library, n, shift) ==
    LET n32 == AsU32(n)
        name == KernelName("mul_pow")
        constants == <<n32>>
    IN  Pipeline(library, name, constants,
            [kind |-> "mul_pow",
             pipeline |-> [function |-> name, constants |-> constants],
             threadgroup_dim |-> MTLSize(THREADGROUP_WIDTH),
             grid_dim |-> MTLSize(TryIntoNSUInteger(AsU32(n32))),
             shift |-> U(0)])

MulPowStage_new(library, n, shift) ==
    LET n32 == AsU32(n)
        name == KernelName("mul_pow")
        constants == <<n32>>
    IN  Pipeline(library, name, constants,
            [kind |-> "mul_pow",
             pipeline |-> [function |-> name, constants |-> constants],
             threadgroup_dim |-> MTLSize(THREADGROUP_WIDTH),
             grid_dim |-> MTLSize(TryIntoNSUInteger(AsU32(n32))),
             shift |-> AsU32(shift)])

AddAssignStage_new(library, n) ==
    LET name == KernelName("add_assign")
        n32 == AsU32(n)
    IN  Pipeline(library, name, <<>>,
            [kind |-> "add_assign",
             pipeline |-> [function |-> name, constants |-> <<>>],
             threadgroup_dim |-> MTLSize(THREADGROUP_WIDTH),
             grid_dim |-> MTLSize(TryIntoNSUInteger(n32))])

-----------------------------------------------------------------------------
(* Encoding.  A command buffer is the sequence of its compute encoders; an *)
(* encoder is the sequence of the commands issued on it.  Buffers are      *)
(* named by their handles.                                                 *)

\* std::mem::size_of::<u32>()
SizeOfU32 == 4

\* The words of threadgroup memory an FFT dispatch asks for.
THREADGROUP_FFT_SIZE == 2048

\* The handle of the device-private buffer a ScaleAndNormalize stage owns.
ScaleFactorsBuffer == "scale_factors"

\* command_buffer.new_compute_command_encoder() and the commands issued on
\* the encoder, end_encoding() last.
EncodeOn(command_buffer, commands) == Append(command_buffer, commands)

SetPipeline(pipeline) == [op |-> "set_compute_pipeline_state", pipeline |-> pipeline]
SetThreadgroupMemoryLength(index, length) ==
    [op |-> "set_threadgroup_memory_length", index |-> index, length |-> length]
SetBuffer(index, buffer) == [op |-> "set_buffer", index |-> index, buffer |-> buffer]
SetBytes(index, length, bytes) ==
    [op |-> "set_bytes", index |-> index, length |-> length, bytes |-> bytes]
DispatchThreads(grid, threadgroup) ==
    [op |-> "dispatch_threads", grid |-> grid, threadgroup |-> threadgroup]
MemoryBarrierWithResources(resources) ==
    [op |-> "memory_barrier_with_resources", resources |-> resources]
EndEncoding == [op |-> "end_encoding"]

\* FftGpuStage::encode with the memory barrier on the twiddles.
FftGpuStage_encode_barrier_on_twiddles(self, command_buffer, input_buffer, twiddles_buffer) ==
    EncodeOn(command_buffer,
        << SetPipeline(self.pipeline),
           SetThreadgroupMemoryLength(0, THREADGROUP_FFT_SIZE * SizeOfF),
           SetBuffer(0, input_buffer),
           SetBuffer(1, twiddles_buffer),
           DispatchThreads(self.grid_dim, self.threadgroup_dim),
           MemoryBarrierWithResources({twiddles_buffer}),
           EndEncoding >>)

FftGpuStage_encode(self, command_buffer, input_buffer, twiddles_buffer) ==
    EncodeOn(command_buffer,
        << SetPipeline(self.pipeline),
           SetThreadgroupMemoryLength(0, THREADGROUP_FFT_SIZE * SizeOfF),
           SetBuffer(0, input_buffer),
           SetBuffer(1, twiddles_buffer),
           DispatchThreads(self.grid_dim, self.threadgroup_dim),
           MemoryBarrierWithResources({input_buffer}),
           EndEncoding >>)

ScaleAndNormalizeGpuStage_encode(self, command_buffer, input_buffer) ==
    EncodeOn(command_buffer,
        << SetPipeline(self.pipeline),
           SetBuffer(0, input_buffer),
           SetBuffer(1, ScaleFactorsBuffer),
           DispatchThreads(self.grid_dim, self.threadgroup_dim),
           MemoryBarrierWithResources({input_buffer}),
           EndEncoding >>)

BitReverseGpuStage_encode(self, command_buffer, input_buffer) ==
    EncodeOn(command_buffer,
        << SetPipeline(self.pipeline),
           SetBuffer(0, input_buffer),
           DispatchThreads(self.grid_dim, self.threadgroup_dim),
           MemoryBarrierWithResources({input_buffer}),
           EndEncoding >>)

\* MulPowStage::encode with the two buffers bound the other way round.
MulPowStage_encode_swapped(self, command_buffer, dst_buffer, src_buffer, power) ==
    EncodeOn(command_buffer,
        << SetPipeline(self.pipeline),
           SetBuffer(0, src_buffer),
           SetBuffer(1, dst_buffer),
           SetBytes(2, SizeOfU32, AsU32(power)),
           SetBytes(3, SizeOfU32, self.shift),
           DispatchThreads(self.grid_dim, self.threadgroup_dim),
           MemoryBarrierWithResources({dst_buffer}),
           EndEncoding >>)

\* MulPowStage::encode with the memory barrier on the buffer read.
MulPowStage_encode_barrier_on_src(self, command_buffer, dst_buffer, src_buffer, power) ==
    LET power32 == AsU32(power)
    IN  EncodeOn(command_buffer,
            << SetPipeline(self.pipeline),
               SetBuffer(0, dst_buffer),
               SetBuffer(1, src_buffer),
               SetBytes(2, SizeOfU32, power32),
               SetBytes(3, SizeOfU32, self.shift),
               DispatchThreads(self.grid_dim, self.threadgroup_dim),
               MemoryBarrierWithResources({src_buffer}),
               EndEncoding >>)

MulPowStage_encode(self, command_buffer, dst_buffer, src_buffer, power) ==
    LET power32 == AsU32(power)
    IN  EncodeOn(command_buffer,
            << SetPipeline(self.pipeline),
               SetBuffer(0, dst_buffer),
               SetBuffer(1, src_buffer),
               SetBytes(2, SizeOfU32, power32),
               SetBytes(3, SizeOfU32, self.shift),
               DispatchThreads(self.grid_dim, self.threadgroup_dim),
               MemoryBarrierWithResources({dst_buffer}),
               EndEncoding >>)

\* AddAssignStage::encode with the two buffers bound the other way round.
AddAssignStage_encode_swapped(self, command_buffer, dst_buffer, src_buffer) ==
    EncodeOn(command_buffer,
        << SetPipeline(self.pipeline),
           SetBuffer(0, src_buffer),
           SetBuffer(1, dst_buffer),
           DispatchThreads(self.grid_dim, self.threadgroup_dim),
           MemoryBarrierWithResources({dst_buffer}),
           EndEncoding >>)

AddAssignStage_encode(self, command_buffer, dst_buffer, src_buffer) ==
    EncodeOn(command_buffer,
        << SetPipeline(self.pipeline),
           SetBuffer(0, dst_buffer),
           SetBuffer(1, src_buffer),
           DispatchThreads(self.grid_dim, self.threadgroup_dim),
           MemoryBarrierWithResources({dst_buffer}),
           EndEncoding >>)

-----------------------------------------------------------------------------
(* The kernels.  Thread gid of a grid of G threads handles element gid.    *)

\* The index whose low `bits` bits are those of i in reverse order.
RECURSIVE ReverseBits(_, _)
ReverseBits(i, bits) ==
    IF bits = 0 THEN 0
    ELSE (i % 2) * 2^(bits - 1) + ReverseBits(i \div 2, bits - 1)

\* log2 of a power of two.
Log2(x) == CHOOSE b \in x : TRUE

\* Thread k swaps elements k and rev(k) when k < rev(k); the reversed index
\* is put together from the reversed low 6 bits and the reversed high bits.
BitReverseThreads(low, high, G, vals) ==
    [k \in DOMAIN vals |->
        LET r == low[k % 64] + high[k \div 64]
        IN  IF (IF k < r THEN k ELSE r) < G THEN vals[r] ELSE vals[k]]

\* bit_reverse_<field>
BitReverseKernel(N, G, vals) ==
    BitReverseThreads([l \in 0..63 |-> ReverseBits(l, 6) * 2^(Log2(N) - 6)] @@ <<>>,
                      [h \in 0..(2^(Log2(N) - 6) - 1) |-> ReverseBits(h, Log2(N) - 6)]
                          @@ <<>>,
                      G, vals)

\* One butterfly stage of stride b: thread gid combines the pair at distance b
\* of its box, (x, y) -> (x + w*y, x - w*y), w the twiddle of its position.
ButterflyStage(N, G, b, vals, twiddles) ==
    [k \in DOMAIN vals |->
        LET j == k % (2 * b)
            lo == IF j < b THEN k ELSE k - b
            gid == (lo \div (2 * b)) * b + (lo % (2 * b))
            w == twiddles[(lo % (2 * b)) * (N \div (2 * b))]
        IN  IF gid >= G THEN vals[k]
            ELSE IF j < b THEN Fadd(vals[lo], Fmul(w, vals[lo + b]))
            ELSE Fsub(vals[lo], Fmul(w, vals[lo + b]))]

\* fft_single_<field>: the butterfly stage of stride NUM_BOXES.
FftSingleKernel(N, NUM_BOXES, G, vals, twiddles) ==
    ButterflyStage(N, G, NUM_BOXES, vals, twiddles)

\* fft_multiple_<field>: the butterfly stages of strides NUM_BOXES, 2*NUM_BOXES,
\* ... whose boxes fit the tile of 2048 values held in threadgroup memory.
RECURSIVE FftMultipleKernel(_, _, _, _, _)
FftMultipleKernel(N, NUM_BOXES, G, vals, twiddles) ==
    IF 2 * NUM_BOXES > THREADGROUP_FFT_SIZE \/ NUM_BOXES >= N THEN vals
    ELSE FftMultipleKernel(N, 2 * NUM_BOXES, G,
             ButterflyStage(N, G, NUM_BOXES, vals, twiddles), twiddles)

\* mul_assign_<field>: vals[i] *= factors[i]
MulAssignKernel(G, vals, factors) ==
    [k \in DOMAIN vals |-> IF k < G THEN Fmul(vals[k], factors[k]) ELSE vals[k]]

\* Thread k computes dst[k] = src[k] * base^(shift * k + power), the power put
\* together from high[h] = base^(64 * h) and low[l] = base^l (base^N = 1).
MulPowThreads(low, high, N, G, dst, src, power, shift) ==
    [k \in DOMAIN dst |->
        IF k < G
        THEN Fmul(src[k], Fmul(high[((shift * k + power) % N) \div 64],
                               low[((shift * k + power) % N) % 64]))
        ELSE dst[k]]

\* mul_pow_<field>: dst[i] = src[i] * base^(shift * i + power), base the
\* generator of the domain of size N.
MulPowKernel(N, G, dst, src, power, shift) ==
    MulPowThreads([l \in 0..63 |-> Fpow(RootOfUnity(N), l)] @@ <<>>,
                  [h \in 0..((N - 1) \div 64) |-> Fpow(RootOfUnity(N), 64 * h)] @@ <<>>,
                  N, G, dst, src, power, shift)

\* add_assign_<field>: dst[i] += src[i]
AddAssignKernel(G, dst, src) ==
    [k \in DOMAIN dst |-> IF k < G THEN Fadd(dst[k], src[k]) ELSE dst[k]]

\* What a dispatch of `pipeline` over `grid` threads writes to buffer 0, given
\* the contents of the bound buffers and the inline bytes.
Kernel(pipeline, grid, buffer, bytes) ==
    LET op == pipeline.function[1]
        G == ToNat(grid.width)
    IN  <<>> @@
        CASE op = "fft_single" ->
                 FftSingleKernel(ToNat(pipeline.constants[1]), ToNat(pipeline.constants[2]),
                                 G, buffer[0], buffer[1])
          [] op = "fft_multiple" ->
                 FftMultipleKernel(ToNat(pipeline.constants[1]), ToNat(pipeline.constants[2]),
                                   G, buffer[0], buffer[1])
          [] op = "bit_reverse" -> BitReverseKernel(pipeline.constants[1], G, buffer[0])
          [] op = "mul_assign" -> MulAssignKernel(G, buffer[0], buffer[1])
          [] op = "mul_pow" ->
                 MulPowKernel(ToNat(pipeline.constants[1]), G, buffer[0], buffer[1],
                              ToNat(bytes[2]), ToNat(bytes[3]))
          [] op = "add_assign" -> AddAssignKernel(G, buffer[0], buffer[1])

-----------------------------------------------------------------------------
(* The device.  The writes of a dispatch become visible to later dispatches *)
(* at a memory barrier that names the buffer written, and to the host when *)
(* the command buffer completes.                                           *)

\* f with x mapped to v, x in its domain or not.
Bind(f, x, v) == [y \in DOMAIN f \cup {x} |-> IF y = x THEN v ELSE f[y]]

\* A new compute command encoder on the device memory d.
NewEncoder(d) == d @@ [pipeline |-> NoStage, buffer |-> <<>>, bytes |-> <<>>]

\* The writes to the buffers in `resources` made visible.
Flush(visible, pending, resources) ==
    [x \in DOMAIN visible |->
        IF x \in resources /\ x \in DOMAIN pending THEN pending[x] ELSE visible[x]]

Command(e, c) ==
    CASE c.op = "set_compute_pipeline_state" -> [e EXCEPT !.pipeline = c.pipeline]
      [] c.op = "set_threadgroup_memory_length" -> e
      [] c.op = "set_buffer" -> [e EXCEPT !.buffer = Bind(@, c.index, c.buffer)]
      [] c.op = "set_bytes" -> [e EXCEPT !.bytes = Bind(@, c.index, c.bytes)]
      [] c.op = "dispatch_threads" ->
             LET bound == [i \in DOMAIN e.buffer |-> e.visible[e.buffer[i]]]
             IN  [e EXCEPT !.pending =
                     Bind(@, e.buffer[0], Kernel(e.pipeline, c.grid, bound, e.bytes))]
      [] c.op = "memory_barrier_with_resources" ->
             [e EXCEPT !.visible = Flush(e.visible, e.pending, c.resources),
                       !.pending = [x \in DOMAIN e.pending \ c.resources |-> e.pending[x]]]
      [] c.op = "end_encoding" -> e

RECURSIVE RunEncoder(_, _, _)
RunEncoder(commands, i, e) ==
    IF i > Len(commands) THEN e
    ELSE RunEncoder(commands, i + 1, Command(e, commands[i]))

\* The device memory after the encoders i.. of command_buffer ran in order.
RECURSIVE RunFrom(_, _, _)
RunFrom(command_buffer, i, d) ==
    IF i > Len(command_buffer) THEN d
    ELSE RunFrom(command_buffer, i + 1, RunEncoder(command_buffer[i], 1, NewEncoder(d)))

Completed(d) == Flush(d.visible, d.pending, DOMAIN d.pending)

\* command_buffer.commit(); command_buffer.wait_until_completed()
Run(command_buffer, memory) ==
    Completed(RunFrom(command_buffer, 1, [visible |-> memory, pending |-> <<>>]))

-----------------------------------------------------------------------------
(* Proof options (src/lib.rs).  The five arguments are u8 values.          *)

MIN_NUM_QUERIES == 1
MAX_NUM_QUERIES == 128
MIN_BLOWUP_FACTOR == 1
MAX_BLOWUP_FACTOR == 64
MAX_GRINDING_FACTOR == 32

NoOptions == [kind |-> "none"]

\* ProofOptions::new without the upper bound on the blowup factor.
ProofOptions_new_no_max_blowup(num_queries, lde_blowup_factor, grinding_factor, fri_folding_factor, fri_max_remainder_size) ==
    IF ~(num_queries >= MIN_NUM_QUERIES)
    THEN [panic |-> "assert num_queries >= MIN_NUM_QUERIES", value |-> NoOptions]
    ELSE IF ~(num_queries <= MAX_NUM_QUERIES)
    THEN [panic |-> "assert num_queries <= MAX_NUM_QUERIES", value |-> NoOptions]
    ELSE IF ~IsPowerOfTwo(U(lde_blowup_factor))
    THEN [panic |-> "assert lde_blowup_factor.is_power_of_two", value |-> NoOptions]
    ELSE IF ~(lde_blowup_factor >= MIN_BLOWUP_FACTOR)
    THEN [panic |-> "assert lde_blowup_factor >= MIN_BLOWUP_FACTOR", value |-> NoOptions]
    ELSE IF ~(grinding_factor <= MAX_GRINDING_FACTOR)
    THEN [panic |-> "assert grinding_factor <= MAX_GRINDING_FACTOR", value |-> NoOptions]
    ELSE [panic |-> "none",
          value |-> [kind |-> "ProofOptions",
                     num_queries |-> num_queries,
                     lde_blowup_factor |-> lde_blowup_factor,
                     grinding_factor |-> grinding_factor,
                     fri_folding_factor |-> fri_folding_factor,
                     fri_max_remainder_size |-> fri_max_remainder_size]]

ProofOptions_new(num_queries, lde_blowup_factor, grinding_factor, fri_folding_factor, fri_max_remainder_size) ==
    IF ~(num_queries >= MIN_NUM_QUERIES)
    THEN [panic |-> "assert num_queries >= MIN_NUM_QUERIES", value |-> NoOptions]
    ELSE IF ~(num_queries <= MAX_NUM_QUERIES)
    THEN [panic |-> "assert num_queries <= MAX_NUM_QUERIES", value |-> NoOptions]
    ELSE IF ~IsPowerOfTwo(U(lde_blowup_factor))
    THEN [panic |-> "assert lde_blowup_factor.is_power_of_two", value |-> NoOptions]
    ELSE IF ~(lde_blowup_factor >= MIN_BLOWUP_FACTOR)
    THEN [panic |-> "assert lde_blowup_factor >= MIN_BLOWUP_FACTOR", value |-> NoOptions]
    ELSE IF ~(lde_blowup_factor <= MAX_BLOWUP_FACTOR)
    THEN [panic |-> "assert lde_blowup_factor <= MAX_BLOWUP_FACTOR", value |-> NoOptions]
    ELSE IF ~(grinding_factor <= MAX_GRINDING_FACTOR)
    THEN [panic |-> "assert grinding_factor <= MAX_GRINDING_FACTOR", value |-> NoOptions]
    ELSE [panic |-> "none",
          value |-> [kind |-> "ProofOptions",
                     num_queries |-> num_queries,
                     lde_blowup_factor |-> lde_blowup_factor,
                     grinding_factor |-> grinding_factor,
                     fri_folding_factor |-> fri_folding_factor,
                     fri_max_remainder_size |-> fri_max_remainder_size]]

-----------------------------------------------------------------------------
(* The constructors called on boundary arguments.                          *)

NoCall == [fn |-> "none"]

\* Transform sizes: 0, 1, 1024, 2048, 3072, 4096, 2^30, 2^30 + 2^29, 2^31,
\* 2^32, 2^32 + 2048 and 2^63.
CtorSizes == {U(0), U(1), U(1024), U(2048), U(3072), U(4096), {30}, {30, 29},
              {31}, {32}, {32, 11}, {63}}

\* Box counts: 0, 1, 3, 1024, 2048, 2^29, 2^30 and 2^32 + 1.
CtorBoxes == {U(0), U(1), U(3), U(1024), U(2048), {29}, {30}, {32, 0}}

\* Sizes of the scale-factor vectors asked for: 0, 1, 3, 4, 1024 and 2048,
\* 2^53, 2^59 and 2^60 - 1, whose bytes no allocator grants, and 2^60, 2^63
\* and usize::MAX, whose bytes exceed isize::MAX.
CtorVecSizes == {U(0), U(1), U(3), U(4), U(1024), U(2048),
                 {53}, {59}, 0..59, {60}, {63}, 0..(USIZE_BITS - 1)}

CtorShifts == {U(0), U(1), {32, 1}}

CtorFactors == {0, 1, 2, P - 1}

Variants == {"Multiple", "Single"}

Libraries == {FullLibrary,
              [FullLibrary EXCEPT !.functions = {}],
              [FullLibrary EXCEPT !.device_ok = FALSE]}

U8Queries == {0, 1, 2, 127, 128, 129, 255}
U8Blowups == {0, 1, 2, 3, 32, 64, 65, 128, 255}
U8Grinding == {0, 1, 32, 33, 255}
U8Folding == {0, 8, 255}
U8Remainder == {0, 255}

InitCtor ==
    /\ call = NoCall
    /\ stages = <<>>
    /\ cb = <<>>
    /\ mem = <<>>
    /\ input = 0
    /\ hist = <<>>

FftNew ==
    /\ call = NoCall
    /\ \E library \in Libraries, n \in CtorSizes, num_boxes \in CtorBoxes, variant \in Variants :
        /\ call' = [fn |-> "FftGpuStage::new",
                    args |-> [library |-> library, n |-> n, num_boxes |-> num_boxes,
                              variant |-> variant],
                    result |-> FftGpuStage_new(library, n, num_boxes, variant)]
        /\ UNCHANGED <<stages, cb, mem, input, hist>>

BitReverseNew ==
    /\ call = NoCall
    /\ \E library \in Libraries, n \in CtorSizes :
        /\ call' = [fn |-> "BitReverseGpuStage::new",
                    args |-> [library |-> library, n |-> n],
                    result |-> BitReverseGpuStage_new(library, n)]
        /\ UNCHANGED <<stages, cb, mem, input, hist>>

ScaleAndNormalizeNew ==
    /\ call = NoCall
    /\ \E library \in Libraries, n \in CtorVecSizes,
       scale_factor \in CtorFactors, norm_factor \in CtorFactors :
       \E allocated \in AllocatorAnswers(n) :
        /\ call' = [fn |-> "ScaleAndNormalizeGpuStage::new",
                    args |-> [library |-> library, n |-> n,
                              scale_factor |-> scale_factor, norm_factor |-> norm_factor,
                              allocated |-> allocated],
                    result |-> ScaleAndNormalizeGpuStage_new(library, n, scale_factor,
                                                             norm_factor, allocated)]
        /\ UNCHANGED <<stages, cb, mem, input, hist>>

MulPowNew ==
    /\ call = NoCall
    /\ \E library \in Libraries, n \in CtorSizes, shift \in CtorShifts :
        /\ call' = [fn |-> "MulPowStage::new",
                    args |-> [library |-> library, n |-> n, shift |-> shift],
                    result |-> MulPowStage_new(library, n, shift)]
        /\ UNCHANGED <<stages, cb, mem, input, hist>>

AddAssignNew ==
    /\ call = NoCall
    /\ \E library \in Libraries, n \in CtorSizes :
        /\ call' = [fn |-> "AddAssignStage::new",
                    args |-> [library |-> library, n |-> n],
                    result |-> AddAssignStage_new(library, n)]
        /\ UNCHANGED <<stages, cb, mem, input, hist>>

ProofOptionsNew ==
    /\ call = NoCall
    /\ \E num_queries \in U8Queries, lde_blowup_factor \in U8Blowups,
       grinding_factor \in U8Grinding, fri_folding_factor \in U8Folding,
       fri_max_remainder_size \in U8Remainder :
        /\ call' = [fn |-> "ProofOptions::new",
                    args |-> [num_queries |-> num_queries,
                              lde_blowup_factor |-> lde_blowup_factor,
                              grinding_factor |-> grinding_factor,
                              fri_folding_factor |-> fri_folding_factor,
                              fri_max_remainder_size |-> fri_max_remainder_size],
                    result |-> ProofOptions_new(num_queries, lde_blowup_factor,
                                   grinding_factor, fri_folding_factor,
                                   fri_max_remainder_size)]
        /\ UNCHANGED <<stages, cb, mem, input, hist>>

\* The host drops the outcome before its next constructor call.
Drop ==
    /\ call # NoCall
    /\ call' = NoCall
    /\ UNCHANGED <<stages, cb, mem, input, hist>>

NextCtor ==
    \/ Drop
    \/ FftNew
    \/ BitReverseNew
    \/ ScaleAndNormalizeNew
    \/ MulPowNew
    \/ AddAssignNew
    \/ ProofOptionsNew

SpecCtor == InitCtor /\ [][NextCtor]_vars

-----------------------------------------------------------------------------
(* The host: stages built once, then encode calls on one command buffer at *)
(* a time, each command buffer committed and run to completion.            *)

\* Most encode calls made on the command buffers of one run.
MaxEnc == 2

\* The number of distinct buffer contents uploaded.
NumInputs == 2

\* The transform size of the stages built.
DataSizes == {U(2048)}

\* Powers of the primitive root w: the twiddle factors of a transform.
Twiddles(N, w) == [k \in 0..(N \div 2 - 1) |-> Fpow(w, k)]

\* The contents uploaded to buffer `name`: input 1 is the impulse at index 1
\* (in a), the others are spread over the field.
Upload(id, name, N) ==
    LET salt == CASE name = "a" -> 1 [] name = "b" -> 5 [] name = "c" -> 11
    IN  [i \in 0..(N - 1) |->
            IF id = 1 /\ name = "a" THEN (IF i = 1 THEN 1 ELSE 0)
            ELSE (salt * 1009 + id * 7919 + 31 * i * i + (17 + salt) * i) % P]

\* The ladder of FFT stages of a transform of size n = 2^k: one Multiple
\* dispatch for the strides 1 .. 1024, one Single dispatch per larger stride.
Ladder(n) ==
    <<[num_boxes |-> U(1), variant |-> "Multiple"]>> \o
    [j \in 1..(Log2(n) - 11) |-> [num_boxes |-> {10 + j}, variant |-> "Single"]]

\* The stages exist, so the allocation of the scale factors was granted.
DataInit(n, fft, scale_factor, norm_factor, shift, id) ==
    LET N == ToNat(n)
        w == RootOfUnity(N)
        scale == ScaleAndNormalizeGpuStage_new(FullLibrary, n, scale_factor, norm_factor, TRUE).stage
    IN  /\ call = NoCall
        /\ stages = [fft |-> [j \in DOMAIN fft |->
                                 FftGpuStage_new(FullLibrary, n, fft[j].num_boxes,
                                                 fft[j].variant).stage],
                     scale |-> scale,
                     bit_reverse |-> BitReverseGpuStage_new(FullLibrary, n).stage,
                     mul_pow |-> MulPowStage_new(FullLibrary, n, shift).stage,
                     add_assign |-> AddAssignStage_new(FullLibrary, n).stage]
        /\ cb = <<>>
        /\ mem = [a |-> Upload(id, "a", N),
                  b |-> Upload(id, "b", N),
                  c |-> Upload(id, "c", N),
                  twiddles |-> Twiddles(N, w),
                  inv_twiddles |-> Twiddles(N, Finv(w)),
                  scale_factors |-> scale.scale_factors_buffer]
        /\ input = [n |-> n, id |-> id, scale_factor |-> scale_factor,
                    norm_factor |-> norm_factor, shift |-> shift]
        /\ hist = [done |-> <<>>, open |-> <<>>, ops |-> 0, commits |-> 0]

\* The stage a recorded encode call was made on, and the call itself.
EncodeCall(command_buffer, c) ==
    CASE c.fn = "FftGpuStage::encode" ->
             FftGpuStage_encode(stages.fft[c.stage], command_buffer,
                                c.input_buffer, c.twiddles_buffer)
      [] c.fn = "ScaleAndNormalizeGpuStage::encode" ->
             ScaleAndNormalizeGpuStage_encode(stages.scale, command_buffer, c.input_buffer)
      [] c.fn = "BitReverseGpuStage::encode" ->
             BitReverseGpuStage_encode(stages.bit_reverse, command_buffer, c.input_buffer)
      [] c.fn = "MulPowStage::encode" ->
             MulPowStage_encode(stages.mul_pow, command_buffer,
                                c.dst_buffer, c.src_buffer, c.power)
      [] c.fn = "AddAssignStage::encode" ->
             AddAssignStage_encode(stages.add_assign, command_buffer,
                                   c.dst_buffer, c.src_buffer)

RECURSIVE EncodeCalls(_, _, _)
EncodeCalls(command_buffer, calls, i) ==
    IF i > Len(calls) THEN command_buffer
    ELSE EncodeCalls(EncodeCall(command_buffer, calls[i]), calls, i + 1)

\* The host makes the encode calls `calls`, in order, on the open command buffer.
Encode(calls) ==
    /\ cb' = EncodeCalls(cb, calls, 1)
    /\ hist' = [hist EXCEPT !.open = @ \o calls, !.ops = @ + 1]
    /\ UNCHANGED <<call, stages, mem, input>>

FftCall(j, input_buffer, twiddles_buffer) ==
    [fn |-> "FftGpuStage::encode", stage |-> j,
     input_buffer |-> input_buffer, twiddles_buffer |-> twiddles_buffer]
ScaleAndNormalizeCall(input_buffer) ==
    [fn |-> "ScaleAndNormalizeGpuStage::encode", input_buffer |-> input_buffer]
BitReverseCall(input_buffer) ==
    [fn |-> "BitReverseGpuStage::encode", input_buffer |-> input_buffer]
MulPowCall(dst_buffer, src_buffer, power) ==
    [fn |-> "MulPowStage::encode", dst_buffer |-> dst_buffer,
     src_buffer |-> src_buffer, power |-> power]
AddAssignCall(dst_buffer, src_buffer) ==
    [fn |-> "AddAssignStage::encode", dst_buffer |-> dst_buffer, src_buffer |-> src_buffer]

\* The powers passed to MulPowStage::encode: 0 and 2^32 + 2.
Powers == {U(0), {32, 1}}

FftEncode ==
    /\ hist.ops < MaxEnc
    /\ \E j \in DOMAIN stages.fft : Encode(<<FftCall(j, "a", "twiddles")>>)

ScaleAndNormalizeEncode ==
    /\ hist.ops < MaxEnc
    /\ Encode(<<ScaleAndNormalizeCall("a")>>)

BitReverseEncode ==
    /\ hist.ops < MaxEnc
    /\ Encode(<<BitReverseCall("a")>>)

MulPowEncode ==
    /\ hist.ops < MaxEnc
    /\ \E bufs \in {<<"a", "a">>, <<"b", "a">>}, power \in Powers :
           Encode(<<MulPowCall(bufs[1], bufs[2], power)>>)

AddAssignEncode ==
    /\ hist.ops < MaxEnc
    /\ \E src_buffer \in {"b", "c"} : Encode(<<AddAssignCall("a", src_buffer)>>)

\* command_buffer.commit() and wait_until_completed(); the host then opens a
\* new command buffer.
Commit ==
    /\ cb # <<>>
    /\ mem' = Run(cb, mem)
    /\ cb' = <<>>
    /\ hist' = [hist EXCEPT !.done = @ \o hist.open, !.open = <<>>, !.commits = @ + 1]
    /\ UNCHANGED <<call, stages, input>>

\* The scale and normalization factors of the stage built: (1, 1), (1, 1/n)
\* and (3, 5).
DataFactors(n) == {<<1, 1>>, <<1, Finv(ToNat(n) % P)>>, <<3, 5>>}

\* The shifts of the MulPow stage built: 0 and 2^32 + 3.
DataShifts == {U(0), {32, 1, 0}}

Init ==
    \E n \in DataSizes, id \in 1..NumInputs, shift \in DataShifts :
        \E factors \in DataFactors(n) :
            DataInit(n, <<[num_boxes |-> Half(n), variant |-> "Single"]>>,
                     factors[1], factors[2], shift, id)

Next ==
    \/ FftEncode
    \/ ScaleAndNormalizeEncode
    \/ BitReverseEncode
    \/ MulPowEncode
    \/ AddAssignEncode
    \/ Commit

Spec == Init /\ [][Next]_vars

-----------------------------------------------------------------------------
(* Transforms.  The pipeline of a transform of size n encodes BitReverse,  *)
(* then the ladder of FFT stages; the inverse transform uses the twiddles  *)
(* of the inverse root and ends with ScaleAndNormalize by 1/n.             *)

\* The transforms encoded in one behaviour.
MaxTransforms == 2

FftSizes == {U(2048), U(4096)}

\* The number of distinct buffer contents transformed.
NumFftInputs == 3

ForwardCalls(input_buffer) ==
    <<BitReverseCall(input_buffer)>> \o
    [j \in DOMAIN stages.fft |-> FftCall(j, input_buffer, "twiddles")]

InverseCalls(input_buffer) ==
    <<BitReverseCall(input_buffer)>> \o
    [j \in DOMAIN stages.fft |-> FftCall(j, input_buffer, "inv_twiddles")] \o
    <<ScaleAndNormalizeCall(input_buffer)>>

ForwardEncode ==
    /\ hist.ops < MaxTransforms
    /\ Encode(ForwardCalls("a"))

InverseEncode ==
    /\ hist.ops < MaxTransforms
    /\ Encode(InverseCalls("a"))

InitFft ==
    \E n \in FftSizes, id \in 1..NumFftInputs :
        DataInit(n, Ladder(n), 1, Finv(ToNat(n) % P), U(0), id)

NextFft ==
    \/ ForwardEncode
    \/ InverseEncode
    \/ Commit

SpecFft == InitFft /\ [][NextFft]_vars

-----------------------------------------------------------------------------
(* The conjectured security level (src/utils.rs, src/lib.rs).  usize       *)
(* arithmetic: an operation that leaves the range panics in a build with   *)
(* overflow checks and wraps around in a build without them.               *)

GRINDING_CONTRIBUTION_FLOOR == 80

SHA256_COLLISION_RESISTANCE_SECURITY == 128

\* The outcome of a step: the panic that ended it ("none" when it gave a
\* value), the value, and whether the arithmetic wrapped around.
Panic(why) == [panic |-> why, wrapped |-> FALSE, value |-> {}]
Value(v, wrapped) == [panic |-> "none", wrapped |-> wrapped, value |-> v]

\* x * y on usize
CheckedMul(checked, x, y) ==
    IF checked /\ Overflows(Mul(x, y)) THEN Panic("attempt to multiply with overflow")
    ELSE Value(Wrapped(Mul(x, y)), Overflows(Mul(x, y)))

\* x + y on usize
CheckedAdd(checked, x, y) ==
    IF checked /\ Overflows(Add(x, y, USIZE_BITS + 1))
    THEN Panic("attempt to add with overflow")
    ELSE Value(Add(x, y, USIZE_BITS), Overflows(Add(x, y, USIZE_BITS + 1)))

\* x - y on usize
CheckedSub(checked, x, y) ==
    IF checked /\ Lt(x, y) THEN Panic("attempt to subtract with overflow")
    ELSE Value(Sub(x, y, USIZE_BITS), Lt(x, y))

\* usize::trailing_zeros
TrailingZeros(x) ==
    IF x = {} THEN U(USIZE_BITS) ELSE U(CHOOSE b \in x : \A c \in x : b <= c)

\* usize::ilog2: panics on 0 in every build.
Ilog2(x) ==
    IF x = {} THEN Panic("argument of integer logarithm must be positive")
    ELSE Value(U(CHOOSE b \in x : \A c \in x : c <= b), FALSE)

\* std::cmp::min
Min(x, y) == IF Lt(y, x) THEN y ELSE x

\* field_security: field_bits - (lde_blowup_factor * trace_len).trailing_zeros()
FieldSecurity(checked, field_bits, lde_blowup_factor, trace_len) ==
    LET product == CheckedMul(checked, lde_blowup_factor, trace_len)
        difference == CheckedSub(checked, field_bits, TrailingZeros(product.value))
    IN  IF product.panic # "none" THEN product
        ELSE IF difference.panic # "none" THEN difference
        ELSE Value(difference.value, product.wrapped \/ difference.wrapped)

\* query_security: ilog2(lde_blowup_factor) * num_fri_quiries, and the
\* grinding factor on top when that reaches the floor.
QuerySecurity(checked, lde_blowup_factor, num_fri_quiries, grinding_factor) ==
    LET security_per_query == Ilog2(lde_blowup_factor)
        product == CheckedMul(checked, security_per_query.value, num_fri_quiries)
        sum == CheckedAdd(checked, product.value, grinding_factor)
    IN  IF security_per_query.panic # "none" THEN security_per_query
        ELSE IF product.panic # "none" THEN product
        ELSE IF Lt(product.value, U(GRINDING_CONTRIBUTION_FLOOR)) THEN product
        ELSE IF sum.panic # "none" THEN sum
        ELSE Value(sum.value, product.wrapped \/ sum.wrapped)

\* std::cmp::min(std::cmp::min(field_security, query_security) - 1, hash_fn_security)
SecurityLevelResult(checked, field_security, query_security, hash_fn_security) ==
    LET difference == CheckedSub(checked, Min(field_security, query_security), U(1))
    IN  IF difference.panic # "none" THEN difference
        ELSE Value(Min(difference.value, hash_fn_security), difference.wrapped)

\* utils::conjectured_security_level; `checked` tells whether the build
\* checks arithmetic overflow.
conjectured_security_level(checked, field_bits, hash_fn_security, lde_blowup_factor, trace_len, num_fri_quiries, grinding_factor) ==
    LET field_security == FieldSecurity(checked, field_bits, lde_blowup_factor, trace_len)
        query_security == QuerySecurity(checked, lde_blowup_factor, num_fri_quiries,
                                        grinding_factor)
        level == SecurityLevelResult(checked, field_security.value, query_security.value,
                                     hash_fn_security)
    IN  IF field_security.panic # "none" THEN field_security
        ELSE IF query_security.panic # "none" THEN query_security
        ELSE IF level.panic # "none" THEN level
        ELSE Value(level.value,
                   field_security.wrapped \/ query_security.wrapped \/ level.wrapped)

\* Proof::conjectured_security_level(&self)
Proof_conjectured_security_level(checked, fq_bits, options, trace_len) ==
    conjectured_security_level(checked, fq_bits,
        U(SHA256_COLLISION_RESISTANCE_SECURITY),
        U(options.lde_blowup_factor), trace_len,
        U(options.num_queries), U(options.grinding_factor))

\* The bits of the field of a proof: 64 and 128.
FqBits == {U(64), U(128)}

\* The trace lengths of a proof: 2^0, 2^10, 2^20, 2^57 and 2^63.
TraceLens == {{0}, {10}, {20}, {57}, {63}}

\* A proof is made with the options ProofOptions::new returned, and its
\* security level is asked for.
SecurityLevel ==
    /\ call # NoCall
    /\ call.fn = "ProofOptions::new"
    /\ call.result.panic = "none"
    /\ \E checked \in BOOLEAN, fq_bits \in FqBits, trace_len \in TraceLens :
           call' = [fn |-> "Proof::conjectured_security_level",
                    args |-> [checked |-> checked, fq_bits |-> fq_bits,
                              options |-> call.result.value, trace_len |-> trace_len],
                    result |-> Proof_conjectured_security_level(checked, fq_bits,
                                   call.result.value, trace_len)]
    /\ UNCHANGED <<stages, cb, mem, input, hist>>

NextSecurity ==
    \/ ProofOptionsNew
    \/ SecurityLevel
    \/ Drop

SpecSecurity == InitCtor /\ [][NextSecurity]_vars

-----------------------------------------------------------------------------
(* Properties of the constructors (checked under SpecCtor).                *)

StageConstructors == {"FftGpuStage::new", "BitReverseGpuStage::new",
                      "ScaleAndNormalizeGpuStage::new", "MulPowStage::new",
                      "AddAssignStage::new"}

\* n is a power of two with 2^11 <= n <= 2^30.
SupportedSize(n) == \E k \in 11..30 : n = {k}

\* C3: constructing any of the five stages with an n outside [2^11, 2^30], or
\* with an n that is not a power of two (n = 1024 and n = 2^31 among them),
\* fails construction and produces no stage object.
C3_UnsupportedSizeFailsConstruction ==
    (call.fn \in StageConstructors /\ ~SupportedSize(call.args.n))
        => (call.result.panic # "none" /\ call.result.stage = NoStage)

\* C4: FftGpuStage::new aborts before any kernel lookup unless n is a power of
\* two in [2048, 1073741824] and num_boxes is a power of two below n; a stage
\* it returns has exactly that n and num_boxes baked into its pipeline.
C4_FftNewValidatesBeforeLookup ==
    call.fn = "FftGpuStage::new" =>
        LET a == call.args
            r == call.result
            valid == \E k \in 11..30 : /\ a.n = {k}
                                       /\ \E j \in 0..(k - 1) : a.num_boxes = {j}
        IN  /\ ~valid => (r.panic # "none" /\ r.lookups = 0 /\ r.stage = NoStage)
            /\ r.panic = "none" =>
                   (valid /\ r.stage.pipeline.constants = <<a.n, a.num_boxes>>)

\* An n = 2^31 with a valid num_boxes and a complete library is refused with
\* no lookup made; an n = 2^30 with num_boxes = n/2 is accepted.
C4_Witness ==
    /\ call.fn = "FftGpuStage::new"
    /\ call.args.library = FullLibrary
    /\ call.args.n = {31}
    /\ call.args.num_boxes = {10}
    /\ call.result.panic # "none"
    /\ call.result.lookups = 0

\* C5: every constructed stage has a threadgroup of 1024 lanes and a grid of
\* exactly n threads (n/2 for the FFT stage), n being the constructor's argument.
C5_GridMatchesTransformSize ==
    (call.fn \in StageConstructors /\ call.result.panic = "none") =>
        LET n == call.args.n
            stage == call.result.stage
        IN  /\ stage.threadgroup_dim = [width |-> {10}, height |-> {0}, depth |-> {0}]
            /\ stage.grid_dim.height = {0}
            /\ stage.grid_dim.depth = {0}
            /\ stage.grid_dim.width =
                   IF call.fn = "FftGpuStage::new" THEN {b - 1 : b \in n \ {0}} ELSE n

\* C10: ProofOptions::new returns a value exactly when 1 <= num_queries <= 128,
\* lde_blowup_factor is one of 1, 2, 4, ..., 64 and grinding_factor <= 32, and
\* the value returned holds the five arguments unchanged.
C10_ProofOptionsValidated ==
    call.fn = "ProofOptions::new" =>
        LET a == call.args
            r == call.result
            valid == /\ 1 <= a.num_queries /\ a.num_queries <= 128
                     /\ a.lde_blowup_factor \in {1, 2, 4, 8, 16, 32, 64}
                     /\ a.grinding_factor <= 32
        IN  /\ valid <=> r.panic = "none"
            /\ r.panic # "none" => r.value = NoOptions
            /\ r.panic = "none" =>
                   /\ r.value.num_queries = a.num_queries
                   /\ r.value.lde_blowup_factor = a.lde_blowup_factor
                   /\ r.value.grinding_factor = a.grinding_factor
                   /\ r.value.fri_folding_factor = a.fri_folding_factor
                   /\ r.value.fri_max_remainder_size = a.fri_max_remainder_size

\* The largest accepted arguments are accepted.
C10_Witness ==
    /\ call.fn = "ProofOptions::new"
    /\ call.args.num_queries = 128
    /\ call.args.lde_blowup_factor = 64
    /\ call.args.grinding_factor = 32
    /\ call.args.fri_folding_factor = 255
    /\ call.result.panic = "none"

-----------------------------------------------------------------------------
(* Properties of the stages on data (checked under Spec).                  *)

\* The contents first uploaded to buffer `name`.
Uploaded(name) == Upload(input.id, name, ToNat(input.n))

UploadedMemory ==
    [mem EXCEPT !.a = Uploaded("a"), !.b = Uploaded("b"), !.c = Uploaded("c")]

\* The buffer the stage of an encode call writes.
Written(c) ==
    IF c.fn \in {"MulPowStage::encode", "AddAssignStage::encode"}
    THEN c.dst_buffer ELSE c.input_buffer

\* The encoder holds exactly one dispatch, on buffer 0 = the buffer written,
\* then the barrier naming that buffer, then end_encoding.
OneDispatchThenBarrier(encoder, c) ==
    \E d \in DOMAIN encoder :
        /\ {i \in DOMAIN encoder : encoder[i].op = "dispatch_threads"} = {d}
        /\ \E i \in 1..(d - 1) : encoder[i] = SetBuffer(0, Written(c))
        /\ Len(encoder) = d + 2
        /\ encoder[d + 1] = MemoryBarrierWithResources({Written(c)})
        /\ encoder[d + 2] = EndEncoding

\* The memory after the stages of `calls` ran one after the other, each in a
\* command buffer of its own that completed before the next began.
RECURSIVE Sequentially(_, _, _)
Sequentially(calls, i, memory) ==
    IF i > Len(calls) THEN memory
    ELSE Sequentially(calls, i + 1, Run(EncodeCall(<<>>, calls[i]), memory))

\* C2: each encode call appends one encoder holding exactly one dispatch, then
\* a memory barrier naming the buffer the dispatch writes, then end_encoding;
\* and once the command buffers completed, the memory is what the stages
\* encoded so far produce when run one after the other.
C2_EncodeIsDispatchBarrierClose ==
    /\ Len(cb) = Len(hist.open)
    /\ \A k \in DOMAIN cb : OneDispatchThenBarrier(cb[k], hist.open[k])
    /\ cb = <<>> => mem = Sequentially(hist.done, 1, UploadedMemory)

\* Two stages encoded on one command buffer, the second reading what the
\* first wrote, have completed.
C2_Witness ==
    /\ hist.commits = 1
    /\ cb = <<>>
    /\ \E power \in Powers :
           hist.done = <<MulPowCall("b", "a", power), AddAssignCall("a", "b")>>
    /\ mem.a # Uploaded("a")

\* C6: the scale-factor buffer of the stage built holds exactly n values,
\* scale_factors[i] = norm_factor * scale_factor^i (the first is norm_factor
\* and each next one is scale_factor times the one before; the power is also
\* computed outright at some indices); every entry is norm_factor
\* when scale_factor = 1; and with both factors 1 the stage leaves the buffer
\* it is run on as it was.
C6_ScaleFactorsGeometric ==
    LET scale_factors == stages.scale.scale_factors_buffer
        N == ToNat(input.n)
    IN  /\ DOMAIN scale_factors = 0..(N - 1)
        /\ scale_factors[0] = input.norm_factor
        /\ \A i \in 1..(N - 1) :
               scale_factors[i] = Fmul(scale_factors[i - 1], input.scale_factor)
        /\ \A i \in {1, 2, 3, 64, 65, N \div 2, N - 1} :
               scale_factors[i] = Fmul(input.norm_factor, Fpow(input.scale_factor, i))
        /\ input.scale_factor = 1 =>
               \A i \in 0..(N - 1) : scale_factors[i] = input.norm_factor
        /\ mem.scale_factors = scale_factors
        /\ ( /\ input.scale_factor = 1
             /\ input.norm_factor = 1
             /\ hist.done \in {<<ScaleAndNormalizeCall("a")>>,
                               <<ScaleAndNormalizeCall("a"), ScaleAndNormalizeCall("a")>>} )
           => mem.a = Uploaded("a")

\* A stage with factors that are not 1 has run: element 1 was multiplied by
\* norm_factor * scale_factor; and a stage with both factors 1 has run.
C6_Witness ==
    /\ hist.done = <<ScaleAndNormalizeCall("a")>>
    /\ cb = <<>>
    /\ \/ /\ input.scale_factor = 3
          /\ input.norm_factor = 5
          /\ mem.a[1] = Fmul(Uploaded("a")[1], 15)
          /\ mem.a[1] # Uploaded("a")[1]
       \/ /\ input.scale_factor = 1
          /\ input.norm_factor = 1
          /\ input.id = 2

\* The index whose low `bits` bits are those of i in reverse order, by the
\* positions of the bits set.
Reversed(i, bits) == ToNat({bits - 1 - b : b \in U(i)})

\* C7: one BitReverse stage moves the element at index i to the index with
\* the low log2(n) bits of i reversed, and two of them restore the buffer.
C7_BitReverseInvolution ==
    LET N == ToNat(input.n)
    IN  /\ hist.done = <<BitReverseCall("a")>> =>
               \A i \in 0..(N - 1) :
                   mem.a[Reversed(i, Log2(input.n))] = Uploaded("a")[i]
        /\ hist.done = <<BitReverseCall("a"), BitReverseCall("a")>> =>
               mem.a = Uploaded("a")

\* Two BitReverse stages have run on a buffer that one of them changes.
C7_Witness ==
    /\ hist.done = <<BitReverseCall("a"), BitReverseCall("a")>>
    /\ cb = <<>>
    /\ input.id = 2
    /\ Uploaded("a")[1] # Uploaded("a")[Reversed(1, Log2(input.n))]

\* x^(2^b)
RECURSIVE SquareTimes(_, _)
SquareTimes(x, b) == IF b = 0 THEN x ELSE SquareTimes((x^2) % P, b - 1)

\* x^e for a machine integer e.
RECURSIVE FpowU(_, _)
FpowU(x, e) ==
    IF e = {} THEN 1
    ELSE Fmul(SquareTimes(x, CHOOSE b \in e : TRUE),
              FpowU(x, e \ {CHOOSE b \in e : TRUE}))

\* C8: one MulPow dispatch leaves dst[i] = src[i] * base^(shift * i + power),
\* shift the value given to the constructor and power the value given to
\* encode, with dst and src one buffer or two (src then unchanged); with
\* shift = 0 and power = 0, dst = src.
C8_MulPow ==
    \A dst_buffer \in {"a", "b"}, power \in Powers :
        hist.done = <<MulPowCall(dst_buffer, "a", power)>> =>
            /\ \A i \in 0..(ToNat(input.n) - 1) :
                   mem[dst_buffer][i] =
                       Fmul(Uploaded("a")[i],
                            Fmul(Fpow(FpowU(RootOfUnity(ToNat(input.n)), input.shift), i),
                                 FpowU(RootOfUnity(ToNat(input.n)), power)))
            /\ dst_buffer # "a" => mem.a = Uploaded("a")
            /\ (input.shift = U(0) /\ power = U(0)) => mem[dst_buffer] = Uploaded("a")

\* A MulPow stage with shift 2^32 + 3 has run out of place with power 2^32 + 2.
C8_Witness ==
    /\ hist.done = <<MulPowCall("b", "a", {32, 1})>>
    /\ cb = <<>>
    /\ input.shift = {32, 1, 0}
    /\ input.id = 2
    /\ mem.b # Uploaded("a")
    /\ mem.b # Uploaded("b")

\* C9: AddAssign leaves dst[i] = dst[i] + src[i] and src as it was; adding b
\* and then c to a, or c and then b, leaves a[i] + (b[i] + c[i]) in a.
C9_AddAssign ==
    LET N == ToNat(input.n)
    IN  /\ \A src_buffer \in {"b", "c"} :
               hist.done = <<AddAssignCall("a", src_buffer)>> =>
                   /\ \A i \in 0..(N - 1) :
                          mem.a[i] = Fadd(Uploaded("a")[i], Uploaded(src_buffer)[i])
                   /\ mem.b = Uploaded("b")
                   /\ mem.c = Uploaded("c")
        /\ hist.done \in {<<AddAssignCall("a", "b"), AddAssignCall("a", "c")>>,
                          <<AddAssignCall("a", "c"), AddAssignCall("a", "b")>>} =>
               /\ \A i \in 0..(N - 1) :
                      mem.a[i] = Fadd(Uploaded("a")[i],
                                      Fadd(Uploaded("b")[i], Uploaded("c")[i]))
               /\ mem.b = Uploaded("b")
               /\ mem.c = Uploaded("c")

\* c and then b have been added to a.
C9_Witness ==
    /\ hist.done = <<AddAssignCall("a", "c"), AddAssignCall("a", "b")>>
    /\ cb = <<>>
    /\ mem.a # Uploaded("a")

-----------------------------------------------------------------------------
(* Properties of the transforms (checked under SpecFft).                   *)

\* C1: the forward transform and then the inverse transform give back the
\* buffer uploaded; the forward transform encodes no ScaleAndNormalize
\* dispatch and the inverse transform exactly one, last, whose factors are
\* all 1/n.
C1_RoundTrip ==
    (cb = <<>> /\ hist.done = ForwardCalls("a") \o InverseCalls("a")) =>
        /\ mem.a = Uploaded("a")
        /\ {k \in DOMAIN hist.done : hist.done[k].fn = "ScaleAndNormalizeGpuStage::encode"}
               = {Len(hist.done)}
        /\ \A i \in DOMAIN mem.scale_factors :
               Fmul(mem.scale_factors[i], ToNat(input.n) % P) = 1

\* A buffer spread over the field has been through the forward and the
\* inverse transform of size 4096, encoded on one command buffer.
C1_Witness ==
    /\ cb = <<>>
    /\ hist.done = ForwardCalls("a") \o InverseCalls("a")
    /\ hist.commits = 1
    /\ input.n = U(4096)
    /\ input.id = 2
    /\ mem.a = Uploaded("a")

\* The forward transform of the impulse at index 1 is the sequence of the
\* powers of the root of unity.
ForwardOfImpulse ==
    (cb = <<>> /\ hist.done = ForwardCalls("a") /\ input.id = 1) =>
        \A k \in DOMAIN mem.a : mem.a[k] = Fpow(RootOfUnity(ToNat(input.n)), k)

-----------------------------------------------------------------------------
(* Frame of the encode calls (checked under Spec).                         *)

\* The stages as the constructors returned them for the arguments recorded.
ConstructedStages ==
    [fft |-> <<FftGpuStage_new(FullLibrary, input.n, Half(input.n), "Single").stage>>,
     scale |-> ScaleAndNormalizeGpuStage_new(FullLibrary, input.n, input.scale_factor,
                                             input.norm_factor, TRUE).stage,
     bit_reverse |-> BitReverseGpuStage_new(FullLibrary, input.n).stage,
     mul_pow |-> MulPowStage_new(FullLibrary, input.n, input.shift).stage,
     add_assign |-> AddAssignStage_new(FullLibrary, input.n).stage]

\* The buffers the encode calls made so far were given to write.
WrittenSoFar == {Written(hist.done[k]) : k \in DOMAIN hist.done}
                \cup {Written(hist.open[k]) : k \in DOMAIN hist.open}

\* C11: after any sequence of encode calls and commits every stage holds the
\* pipeline, threadgroup size, grid size, shift and scale-factor buffer its
\* constructor set, and every buffer that no encode call was given as its
\* input/dst buffer holds what was uploaded: the twiddles, the scale
\* factors, and a src buffer that is not also a dst.
C11_StagesImmutableAndFrame ==
    /\ stages = ConstructedStages
    /\ mem.twiddles = Twiddles(ToNat(input.n), RootOfUnity(ToNat(input.n)))
    /\ mem.inv_twiddles = Twiddles(ToNat(input.n), Finv(RootOfUnity(ToNat(input.n))))
    /\ mem.scale_factors = ConstructedStages.scale.scale_factors_buffer
    /\ \A name \in {"a", "b", "c"} \ WrittenSoFar : mem[name] = Uploaded(name)

\* An FFT stage and an out-of-place MulPow stage have run: b was written and
\* its source a, changed by the FFT stage before, was read.
C11_Witness ==
    /\ cb = <<>>
    /\ \E power \in Powers :
           hist.done = <<FftCall(1, "a", "twiddles"), MulPowCall("b", "a", power)>>
    /\ mem.a # Uploaded("a")
    /\ mem.b # Uploaded("b")
    /\ mem.c = Uploaded("c")

-----------------------------------------------------------------------------
(* Properties of the security level (checked under SpecSecurity).          *)

\* The security level in the natural numbers, for arguments args of a call.
ExpectedQuerySecurity(args) ==
    LET q == ToNat(Ilog2(U(args.options.lde_blowup_factor)).value) * args.options.num_queries
    IN  IF q >= 80 THEN q + args.options.grinding_factor ELSE q

ExpectedFieldSecurity(args) ==
    ToNat(args.fq_bits)
        - (ToNat(Ilog2(U(args.options.lde_blowup_factor)).value)
           + ToNat(Ilog2(args.trace_len).value))

\* C12: for options that ProofOptions::new accepted and a power-of-two trace
\* length, conjectured_security_level returns, with no subtraction going
\* below zero, min(min(field_security, query_security) - 1, hash_fn_security),
\* a value that is at most hash_fn_security.
C12_SecurityLevelWithoutUnderflow ==
    (call # NoCall /\ call.fn = "Proof::conjectured_security_level") =>
        /\ call.result.panic = "none"
        /\ ~call.result.wrapped
        /\ ExpectedFieldSecurity(call.args) >= 1
        /\ ExpectedQuerySecurity(call.args) >= 1
        /\ LET m == IF ExpectedFieldSecurity(call.args) < ExpectedQuerySecurity(call.args)
                    THEN ExpectedFieldSecurity(call.args)
                    ELSE ExpectedQuerySecurity(call.args)
           IN  /\ call.result.value =
                      U(IF m - 1 < SHA256_COLLISION_RESISTANCE_SECURITY
                        THEN m - 1 ELSE SHA256_COLLISION_RESISTANCE_SECURITY)
               /\ ~Lt(U(SHA256_COLLISION_RESISTANCE_SECURITY), call.result.value)

\* With lde_blowup_factor at least 2, a product that fits a usize and a
\* field of more bits than the product has trailing zeros, the level is the
\* formula's and nothing goes below zero.
SecurityLevelAboveBlowupOne ==
    ( /\ call # NoCall
      /\ call.fn = "Proof::conjectured_security_level"
      /\ call.args.options.lde_blowup_factor >= 2
      /\ ~Overflows(Mul(U(call.args.options.lde_blowup_factor), call.args.trace_len)) )
    => C12_SecurityLevelWithoutUnderflow

====
